---- MODULE Spec2Model ----
(***************************************************************************)
(* A model of the matchers crate (src/src/lib.rs): a Pattern owning a DFA, *)
(* and a Matcher that walks the DFA one byte at a time, used as a string   *)
(* matcher, as a fmt::Write text sink, as an io::Write byte sink and as a  *)
(* consumer of an io::Read byte source.                                    *)
(*                                                                         *)
(* The DFA itself comes from the regex_automata crate.  It is modelled by  *)
(* the four operations lib.rs calls on it (start_state,                    *)
(* next_state_unchecked, is_dead_state, is_match_state) over an automaton  *)
(* record; the automaton is drawn in Init from a family of well-formed     *)
(* DFAs (dead state absorbing and not a match state) and from the DFAs of  *)
(* the patterns used in the crate's tests.                                 *)
(*                                                                         *)
(* Four specifications share the operators that model the code:            *)
(*   Spec       one caller making any calls on the Pattern and on one      *)
(*              Matcher at a time, each call in one step (the renderer of  *)
(*              debug_matches / display_matches chunk by chunk);           *)
(*   SpecCalls  match calls one after another on one Pattern, with the way *)
(*              the earlier ones ended remembered;                         *)
(*   SpecConc   several pattern.matches calls at once, one byte per step;  *)
(*   SpecRead   read_matches one byte per step on sources that may never   *)
(*              end, under weak fairness of its loop.                      *)
(***************************************************************************)
EXTENDS Integers, Sequences, FiniteSets, TLC

VARIABLES
    automaton,  \* Pattern.automaton: the compiled DFA (never changes)
    phase,      \* "none": no Matcher yet; "live": a Matcher is held by the
                \* caller; "rendering": the Matcher is lent to a formatter;
                \* "consumed": the Matcher was moved into a match operation
    state,      \* Matcher.state of the Matcher most recently created
    fed,        \* history: every byte submitted to that Matcher, in order
    last,       \* the most recent call and what it returned
    sinks,      \* history: which of write_str / write that Matcher was given
    earlier,    \* SpecCalls: how the earlier calls on the Pattern ended
    pool,       \* SpecConc: the Matchers of the concurrent match attempts
    rd          \* SpecRead: the read_matches call in progress

vars == <<automaton, phase, state, fed, last, sinks, earlier, pool, rd>>

\* The variables the single-Matcher walk leaves alone.
aux == <<earlier, pool, rd>>

----------------------------------------------------------------------------
(* Bounds *)

\* Most bytes submitted to one Matcher (over all its calls) from the
\* enumerated texts; the literal test inputs are submitted whole on top.
MaxFed == 2

\* Concurrent match attempts on one Pattern, and the most bytes of an
\* enumerated text given to one of them.
NumAttempts == 2
MaxConc == 2

\* Most bytes of an enumerated text in the calls made one after another
\* on one Pattern.
MaxCall == 1

\* Most bytes a byte source yields before it ends, fails or starts to
\* repeat, and most bytes of the part an unbounded source repeats.
MaxRead == 2
MaxCycle == 2

----------------------------------------------------------------------------
(* Bytes and texts.  A text is a sequence of byte values (the as_bytes() of *)
(* a &str, or a &[u8]).                                                     *)

\* The bytes the enumerated texts are built from: 'a' and 'b'.
GenBytes == {97, 98}

SeqsUpTo(n) == UNION {[1..k -> GenBytes] : k \in 0..n}

\* "hello world", "hello world!", "ab", "aaaab", "b", "abb", "aaaaabb":
\* the inputs of the crate's tests and of the specification's scenarios.
HelloWorld == <<104, 101, 108, 108, 111, 32, 119, 111, 114, 108, 100>>
HelloWorldBang == HelloWorld \o <<33>>
Txt_ab == <<97, 98>>
Txt_aaaab == <<97, 97, 97, 97, 98>>
Txt_b == <<98>>
Txt_abb == <<97, 98, 98>>
Txt_aaaaabb == <<97, 97, 97, 97, 97, 98, 98>>

HelloTexts == {HelloWorld, HelloWorldBang}
RepTexts == {Txt_ab, Txt_aaaab, Txt_b, Txt_abb, Txt_aaaaabb}

----------------------------------------------------------------------------
(* Automata.  A record                                                      *)
(*   states : the state identifiers                                         *)
(*   start  : the start state                                               *)
(*   dead   : the dead state's identifier                                   *)
(*   alpha  : the bytes the DFA tells apart; every other byte is in one     *)
(*            further class                                                 *)
(*   trans  : trans[q][c] the state after state q reads a byte of class c   *)
(*   match  : the match states                                              *)

\* The well-formed DFAs with a dead state 0 and two further states, over the
\* two byte classes {'a'} and {every other byte}: every transition table
\* and every set of match states, started in state 1.
DfaFamily ==
    LET live == {1, 2}
        all == {0} \cup live
    IN  { [states |-> all, start |-> 1, dead |-> 0, alpha |-> <<97>>,
           trans |-> [q \in all |-> IF q = 0 THEN <<0, 0>> ELSE t[q]],
           match |-> ms] :
             t \in [live -> all \X all],
             ms \in SUBSET live }

\* The DFA of a literal pattern w: state i (1..Len(w)) expects w[i], state
\* Len(w)+1 is the match state and has no way on.  Anchored: a wrong byte
\* leads to the dead state.  Unanchored (the pattern may start anywhere in
\* the input): a wrong byte restarts the search.  The restart rule is the
\* one of a word whose first byte occurs only at its start.
LiteralDfa(w, anchored) ==
    LET n == Len(w)
        restart(c) == IF anchored THEN 0
                      ELSE IF c <= n /\ w[c] = w[1] THEN 2 ELSE 1
    IN  [states |-> 0..(n + 1), start |-> 1, dead |-> 0, alpha |-> w,
         trans |-> [q \in 0..(n + 1) |->
                      [c \in 1..(n + 1) |->
                         IF q = 0 \/ q = n + 1 THEN 0
                         ELSE IF c <= n /\ w[c] = w[q] THEN q + 1
                         ELSE restart(c)]],
         match |-> {n + 1}]

\* The DFA of the pattern "a+b": 1 start, 2 after a+, 3 after a+b (match).
RepDfa(anchored) ==
    LET back == IF anchored THEN 0 ELSE 1
    IN  [states |-> 0..3, start |-> 1, dead |-> 0, alpha |-> <<97, 98>>,
         trans |-> [q \in 0..3 |->
                      CASE q = 0 -> <<0, 0, 0>>
                        [] q = 1 -> <<2, back, back>>
                        [] q = 2 -> <<2, 3, back>>
                        [] q = 3 -> <<0, 0, 0>>],
         match |-> {3}]

HelloDfas == {LiteralDfa(HelloWorld, anc) : anc \in BOOLEAN}
RepDfas == {RepDfa(anc) : anc \in BOOLEAN}

Automata == DfaFamily \cup HelloDfas \cup RepDfas

\* The test inputs that go with an automaton's pattern.
ScenarioTexts(A) ==
    IF A \in HelloDfas THEN HelloTexts
    ELSE IF A \in RepDfas THEN RepTexts
    ELSE {}

----------------------------------------------------------------------------
(* The DFA operations lib.rs uses.                                          *)

byte_class(A, byte) ==
    LET hit == {c \in 1..Len(A.alpha) : A.alpha[c] = byte}
    IN  IF hit = {} THEN Len(A.alpha) + 1
        ELSE CHOOSE c \in hit : \A d \in hit : c <= d

start_state(A) == A.start

next_state_unchecked(A, q, byte) == A.trans[q][byte_class(A, byte)]

is_dead_state(A, q) == q = A.dead

is_match_state(A, q) == q \in A.match

----------------------------------------------------------------------------
(* Matcher.  Its only mutable field is `state`; each operation below takes  *)
(* the automaton and the state on entry and gives the state on return, the  *)
(* value returned and the number of advance calls made (adv).               *)

\* Matcher::new with the state left at identifier zero, the dead state's,
\* instead of the automaton's start state.
Matcher_new_zeroed(A) == A.dead

\* Matcher::new
Matcher_new(A) == start_state(A)

\* ToMatcher::matcher
matcher(A) == Matcher_new(A)

\* Matcher::advance
advance(A, q, byte) == next_state_unchecked(A, q, byte)

\* Matcher::is_matched reporting "not dead" instead of "match".
is_matched_not_dead(A, q) == ~is_dead_state(A, q)

\* Matcher::is_matched
is_matched(A, q) == is_match_state(A, q)

\* Matcher::matches: the loop from byte i of s on.
RECURSIVE matches_loop(_, _, _, _)
matches_loop(A, q, s, i) ==
    IF i > Len(s)
    THEN [state |-> q, ret |-> is_matched(A, q), adv |-> i - 1]
    ELSE LET q2 == advance(A, q, s[i])
         IN  IF is_dead_state(A, q2)
             THEN [state |-> q2, ret |-> FALSE, adv |-> i]
             ELSE matches_loop(A, q2, s, i + 1)

\* Matcher::matches that also returns at the first match state, with true
\* (a match of a prefix taken for a match of the input).
RECURSIVE matches_sticky_loop(_, _, _, _)
matches_sticky_loop(A, q, s, i) ==
    IF i > Len(s)
    THEN [state |-> q, ret |-> is_matched(A, q), adv |-> i - 1]
    ELSE LET q2 == advance(A, q, s[i])
         IN  IF is_dead_state(A, q2)
             THEN [state |-> q2, ret |-> FALSE, adv |-> i]
             ELSE IF is_match_state(A, q2)
             THEN [state |-> q2, ret |-> TRUE, adv |-> i]
             ELSE matches_sticky_loop(A, q2, s, i + 1)

matches_sticky(A, q, s) == matches_sticky_loop(A, q, s, 1)

\* matches answering false for the empty text without looking at the
\* state.
matches_nonempty(A, q, s) ==
    IF s = <<>>
    THEN [state |-> q, ret |-> FALSE, adv |-> 0]
    ELSE matches_loop(A, q, s, 1)

matches(A, q, s) == matches_loop(A, q, s, 1)

\* fmt::Write::write_str: the loop from byte i of s on; always Ok(()).
RECURSIVE write_str_loop(_, _, _, _)
write_str_loop(A, q, s, i) ==
    IF i > Len(s)
    THEN [state |-> q, ok |-> TRUE, adv |-> i - 1]
    ELSE LET q2 == advance(A, q, s[i])
         IN  IF is_dead_state(A, q2)
             THEN [state |-> q2, ok |-> TRUE, adv |-> i]
             ELSE write_str_loop(A, q2, s, i + 1)

\* write_str breaking on a match state instead of a dead state.
RECURSIVE write_str_match_loop(_, _, _, _)
write_str_match_loop(A, q, s, i) ==
    IF i > Len(s)
    THEN [state |-> q, ok |-> TRUE, adv |-> i - 1]
    ELSE LET q2 == advance(A, q, s[i])
         IN  IF is_match_state(A, q2)
             THEN [state |-> q2, ok |-> TRUE, adv |-> i]
             ELSE write_str_match_loop(A, q2, s, i + 1)

write_str_match(A, q, s) == write_str_match_loop(A, q, s, 1)

\* write_str reporting Err once the state is dead.
write_str_err(A, q, s) ==
    LET r == write_str_loop(A, q, s, 1)
    IN  [r EXCEPT !.ok = ~is_dead_state(A, r.state)]

\* write_str without the break: every byte of the chunk is fed.
RECURSIVE write_str_no_break_loop(_, _, _, _)
write_str_no_break_loop(A, q, s, i) ==
    IF i > Len(s)
    THEN [state |-> q, ok |-> TRUE, adv |-> i - 1]
    ELSE write_str_no_break_loop(A, advance(A, q, s[i]), s, i + 1)

write_str_no_break(A, q, s) == write_str_no_break_loop(A, q, s, 1)

write_str(A, q, s) == write_str_loop(A, q, s, 1)

\* io::Write::write: the loop from byte k of bytes on, i bytes counted so
\* far; always Ok(i).
RECURSIVE write_loop(_, _, _, _, _)
write_loop(A, q, bytes, k, i) ==
    IF k > Len(bytes)
    THEN [state |-> q, ok |-> TRUE, n |-> i, adv |-> k - 1]
    ELSE LET q2 == advance(A, q, bytes[k])
         IN  IF is_dead_state(A, q2)
             THEN [state |-> q2, ok |-> TRUE, n |-> i + 1, adv |-> k]
             ELSE write_loop(A, q2, bytes, k + 1, i + 1)

\* write counting a byte only after the dead-state test, so that the byte
\* that made the state dead is not counted.
RECURSIVE write_late_count_loop(_, _, _, _, _)
write_late_count_loop(A, q, bytes, k, i) ==
    IF k > Len(bytes)
    THEN [state |-> q, ok |-> TRUE, n |-> i, adv |-> k - 1]
    ELSE LET q2 == advance(A, q, bytes[k])
         IN  IF is_dead_state(A, q2)
             THEN [state |-> q2, ok |-> TRUE, n |-> i, adv |-> k]
             ELSE write_late_count_loop(A, q2, bytes, k + 1, i + 1)

write_late_count(A, q, bytes) == write_late_count_loop(A, q, bytes, 1, 0)

\* write breaking on a match state instead of a dead state.
RECURSIVE write_match_loop(_, _, _, _, _)
write_match_loop(A, q, bytes, k, i) ==
    IF k > Len(bytes)
    THEN [state |-> q, ok |-> TRUE, n |-> i, adv |-> k - 1]
    ELSE LET q2 == advance(A, q, bytes[k])
         IN  IF is_match_state(A, q2)
             THEN [state |-> q2, ok |-> TRUE, n |-> i + 1, adv |-> k]
             ELSE write_match_loop(A, q2, bytes, k + 1, i + 1)

write_match(A, q, bytes) == write_match_loop(A, q, bytes, 1, 0)

\* write returning Ok(0) at once on a Matcher that is already dead.
write_dead_noop(A, q, bytes) ==
    IF is_dead_state(A, q)
    THEN [state |-> q, ok |-> TRUE, n |-> 0, adv |-> 0]
    ELSE write_loop(A, q, bytes, 1, 0)

write(A, q, bytes) == write_loop(A, q, bytes, 1, 0)

\* flush putting the Matcher back to the start state.
flush_reset(A, q) == [state |-> start_state(A), ok |-> TRUE]

\* io::Write::flush
\* flush feeding a NUL byte to the Matcher.
flush_step(A, q) == [state |-> advance(A, q, 0), ok |-> TRUE]

flush(A, q) == [state |-> q, ok |-> TRUE]

\* Matcher::read_matches on a source that yields src.bytes one at a time and
\* then either fails (src.fails) or signals end of data.  kind is "bool"
\* for Ok(ret) and "error" for Err(e), e the source's own error.
RECURSIVE read_matches_loop(_, _, _, _)
read_matches_loop(A, q, src, i) ==
    IF i > Len(src.bytes)
    THEN IF src.fails
         THEN [state |-> q, kind |-> "error", ret |-> FALSE, adv |-> i - 1]
         ELSE [state |-> q, kind |-> "bool", ret |-> is_matched(A, q),
               adv |-> i - 1]
    ELSE LET q2 == advance(A, q, src.bytes[i])
         IN  IF is_dead_state(A, q2)
             THEN [state |-> q2, kind |-> "bool", ret |-> FALSE, adv |-> i]
             ELSE read_matches_loop(A, q2, src, i + 1)

\* read_matches that stops reading at the first match state, with Ok(true).
RECURSIVE read_matches_sticky_loop(_, _, _, _)
read_matches_sticky_loop(A, q, src, i) ==
    IF i > Len(src.bytes)
    THEN IF src.fails
         THEN [state |-> q, kind |-> "error", ret |-> FALSE, adv |-> i - 1]
         ELSE [state |-> q, kind |-> "bool", ret |-> is_matched(A, q),
               adv |-> i - 1]
    ELSE LET q2 == advance(A, q, src.bytes[i])
         IN  IF is_dead_state(A, q2)
             THEN [state |-> q2, kind |-> "bool", ret |-> FALSE, adv |-> i]
             ELSE IF is_match_state(A, q2)
             THEN [state |-> q2, kind |-> "bool", ret |-> TRUE, adv |-> i]
             ELSE read_matches_sticky_loop(A, q2, src, i + 1)

read_matches_sticky(A, q, src) == read_matches_sticky_loop(A, q, src, 1)

\* read_matches that takes a read error for the end of the data.
read_matches_swallow(A, q, src) ==
    read_matches_loop(A, q, [src EXCEPT !.fails = FALSE], 1)

\* read_matches that answers Ok(true) when the state goes dead.
read_matches_dead_true(A, q, src) ==
    LET r == read_matches_loop(A, q, src, 1)
    IN  IF r.kind = "bool" /\ is_dead_state(A, r.state) /\ r.adv > 0
        THEN [r EXCEPT !.ret = TRUE] ELSE r

read_matches(A, q, src) == read_matches_loop(A, q, src, 1)

\* Matcher::debug_matches and Matcher::display_matches after write! has
\* returned: wrote is Ok (TRUE) or Err (FALSE); expect panics on Err.
fmt_matches_end(A, q, wrote) ==
    IF wrote THEN [kind |-> "bool", ret |-> is_matched(A, q)]
    ELSE [kind |-> "panic", ret |-> FALSE]

\* Pattern::matches and Pattern::read_matches: the same operation on a
\* fresh Matcher.
\* Pattern.matches run on the Matcher left by the call before, not on a
\* new one.
Pattern_matches_stale(A, s) == matches(A, state, s)

Pattern_matches(A, s) == matches(A, matcher(A), s)

Pattern_read_matches(A, src) == read_matches(A, matcher(A), src)

----------------------------------------------------------------------------
(* The state machine.                                                       *)

\* The record of a call.
\*   op    the operation
\*   arg   the text it was given (for a source: all it would yield; for a
\*         rendering: the chunks written so far, concatenated)
\*   pre   the Matcher's state on entry
\*   kind  "bool" (a boolean, Ok(bool) for read_matches), "ok" (Ok(())),
\*         "count" (Ok(n)), "error" (Err), "panic", "matcher" (a Matcher),
\*         "pending" (debug_matches / display_matches has not returned yet)
\*   b     the boolean returned (kind "bool")
\*   n     the count returned (kind "count")
\*   adv   the number of advance calls made
\*   fail  the collaborator (source or renderer) signalled an error
Done(op, arg, pre, kind, b, n, adv, fail) ==
    [op |-> op, arg |-> arg, pre |-> pre, kind |-> kind, b |-> b, n |-> n,
     adv |-> adv, fail |-> fail]

\* The texts a caller may submit to a Matcher that was already given f.
Texts(f) ==
    {<<>>} \cup SeqsUpTo(MaxFed - Len(f))
           \cup (IF f = <<>> THEN ScenarioTexts(automaton) ELSE {})

Sources(f) == [bytes : Texts(f), fails : BOOLEAN]

\* No read_matches call is in progress.
NoRead ==
    [on |-> FALSE, src |-> [prefix |-> <<>>, cycle |-> <<>>, tail |-> "eof"],
     at |-> 0, state |-> 0, done |-> FALSE, kind |-> "none", ret |-> FALSE,
     tick |-> FALSE, deadseen |-> FALSE]

\* Pattern::new has returned Ok(Pattern {automaton}).
Init ==
    /\ automaton \in Automata
    /\ phase = "none"
    /\ state = automaton.start
    /\ fed = <<>>
    /\ last = Done("Pattern.new", <<>>, automaton.start, "ok", FALSE, 0, 0,
                   FALSE)
    /\ sinks = {}
    /\ earlier = {}
    /\ pool = <<>>
    /\ rd = NoRead

\* pattern.matcher()
NewMatcher ==
    /\ phase \in {"none", "live", "consumed"}
    /\ phase' = "live"
    /\ state' = matcher(automaton)
    /\ fed' = <<>>
    /\ last' = Done("matcher", <<>>, state', "matcher", FALSE, 0, 0, FALSE)
    /\ UNCHANGED automaton
    /\ sinks' = {}

\* matcher.is_matched()
IsMatched ==
    /\ phase = "live"
    /\ last' = Done("is_matched", <<>>, state, "bool",
                    is_matched(automaton, state), 0, 0, FALSE)
    /\ UNCHANGED <<automaton, phase, state, fed>>
    /\ UNCHANGED sinks

\* matcher.write_str(s)
WriteStr(s) ==
    /\ phase = "live"
    /\ LET r == write_str(automaton, state, s)
       IN  /\ state' = r.state
           /\ last' = Done("write_str", s, state,
                           IF r.ok THEN "ok" ELSE "error", FALSE, 0, r.adv,
                           FALSE)
    /\ fed' = fed \o s
    /\ UNCHANGED <<automaton, phase>>
    /\ sinks' = sinks \cup {"write_str"}

\* matcher.write(bytes)
Write(bytes) ==
    /\ phase = "live"
    /\ LET r == write(automaton, state, bytes)
       IN  /\ state' = r.state
           /\ last' = Done("write", bytes, state,
                           IF r.ok THEN "count" ELSE "error", FALSE, r.n,
                           r.adv, FALSE)
    /\ fed' = fed \o bytes
    /\ UNCHANGED <<automaton, phase>>
    /\ sinks' = sinks \cup {"write"}

\* matcher.flush()
Flush ==
    /\ phase = "live"
    /\ LET r == flush(automaton, state)
       IN  /\ state' = r.state
           /\ last' = Done("flush", <<>>, state,
                           IF r.ok THEN "ok" ELSE "error", FALSE, 0, 0, FALSE)
    /\ UNCHANGED <<automaton, phase, fed>>
    /\ UNCHANGED sinks

\* matcher.matches(s): consumes the Matcher
MatcherMatches(s) ==
    /\ phase = "live"
    /\ LET r == matches(automaton, state, s)
       IN  /\ state' = r.state
           /\ last' = Done("matches", s, state, "bool", r.ret, 0, r.adv,
                           FALSE)
    /\ phase' = "consumed"
    /\ fed' = fed \o s
    /\ UNCHANGED automaton
    /\ sinks' = {}

\* matcher.read_matches(io): consumes the Matcher
MatcherReadMatches(src) ==
    /\ phase = "live"
    /\ LET r == read_matches(automaton, state, src)
       IN  /\ state' = r.state
           /\ last' = Done("read_matches", src.bytes, state, r.kind, r.ret,
                           0, r.adv, src.fails)
    /\ phase' = "consumed"
    /\ fed' = fed \o src.bytes
    /\ UNCHANGED automaton
    /\ sinks' = {}

\* pattern.matches(s)
PatternMatches(s) ==
    /\ phase \in {"none", "live", "consumed"}
    /\ LET r == Pattern_matches(automaton, s)
       IN  /\ state' = r.state
           /\ last' = Done("Pattern.matches", s, matcher(automaton), "bool",
                           r.ret, 0, r.adv, FALSE)
    /\ phase' = "consumed"
    /\ fed' = s
    /\ UNCHANGED automaton
    /\ sinks' = {}

\* pattern.read_matches(io)
PatternReadMatches(src) ==
    /\ phase \in {"none", "live", "consumed"}
    /\ LET r == Pattern_read_matches(automaton, src)
       IN  /\ state' = r.state
           /\ last' = Done("Pattern.read_matches", src.bytes,
                           matcher(automaton), r.kind, r.ret, 0, r.adv,
                           src.fails)
    /\ phase' = "consumed"
    /\ fed' = src.bytes
    /\ UNCHANGED automaton
    /\ sinks' = {}

\* matcher.debug_matches(d) / matcher.display_matches(d): write! hands the
\* Matcher to d's renderer, which calls write_str any number of times.
MatcherFmtBegin(op) ==
    /\ phase = "live"
    /\ phase' = "rendering"
    /\ last' = Done(op, <<>>, state, "pending", FALSE, 0, 0, FALSE)
    /\ UNCHANGED <<automaton, state, fed>>
    /\ sinks' = {}

\* pattern.debug_matches(d) / pattern.display_matches(d)
PatternFmtBegin(op) ==
    /\ phase \in {"none", "live", "consumed"}
    /\ phase' = "rendering"
    /\ state' = matcher(automaton)
    /\ fed' = <<>>
    /\ last' = Done(op, <<>>, state', "pending", FALSE, 0, 0, FALSE)
    /\ UNCHANGED automaton
    /\ sinks' = {}

\* The renderer writes one chunk.  Were write_str to return Err, the
\* renderer would return it, write! would return it and expect would panic.
RenderChunk(s) ==
    /\ phase = "rendering"
    /\ LET r == write_str(automaton, state, s)
           e == fmt_matches_end(automaton, r.state, FALSE)
       IN  /\ state' = r.state
           /\ IF r.ok
              THEN /\ last' = [last EXCEPT !.arg = @ \o s, !.adv = @ + r.adv]
                   /\ UNCHANGED phase
              ELSE /\ phase' = "consumed"
                   /\ last' = Done(last.op, last.arg \o s, last.pre, e.kind,
                                   e.ret, 0, last.adv + r.adv, FALSE)
    /\ fed' = fed \o s
    /\ UNCHANGED automaton
    /\ sinks' = {}

\* The renderer returns: Ok(()) or, with err, its own Err.
RenderEnd(err) ==
    /\ phase = "rendering"
    /\ LET e == fmt_matches_end(automaton, state, ~err)
       IN  last' = Done(last.op, last.arg, last.pre, e.kind, e.ret, 0,
                        last.adv, err)
    /\ phase' = "consumed"
    /\ UNCHANGED <<automaton, state, fed>>
    /\ sinks' = {}

\* The caller's next call, or the renderer's next step.
Next ==
    \/ NewMatcher /\ UNCHANGED aux
    \/ IsMatched /\ UNCHANGED aux
    \/ \E s \in Texts(fed) : WriteStr(s) /\ UNCHANGED aux
    \/ \E s \in Texts(fed) : Write(s) /\ UNCHANGED aux
    \/ Flush /\ UNCHANGED aux
    \/ \E s \in Texts(fed) : MatcherMatches(s) /\ UNCHANGED aux
    \/ \E src \in Sources(fed) : MatcherReadMatches(src) /\ UNCHANGED aux
    \/ \E s \in Texts(<<>>) : PatternMatches(s) /\ UNCHANGED aux
    \/ \E src \in Sources(<<>>) : PatternReadMatches(src) /\ UNCHANGED aux
    \/ \E op \in {"debug_matches", "display_matches"} :
          MatcherFmtBegin(op) /\ UNCHANGED aux
    \/ \E op \in {"Pattern.debug_matches", "Pattern.display_matches"} :
          PatternFmtBegin(op) /\ UNCHANGED aux
    \/ \E s \in Texts(fed) : RenderChunk(s) /\ UNCHANGED aux
    \/ \E err \in BOOLEAN : RenderEnd(err) /\ UNCHANGED aux

Spec == Init /\ [][Next]_vars

----------------------------------------------------------------------------
(* Concurrent match attempts on one Pattern.                                *)
(*                                                                          *)
(* Each attempt is pattern.matches(s) run on its own thread: matcher()      *)
(* builds a Matcher, the loop of matches feeds it one byte per step, and    *)
(* the steps of the attempts interleave in any order.  pool[i] is attempt   *)
(* i: its status, its text, how many bytes it has fed, the state field of   *)
(* its Matcher and what it returned.                                        *)

main == <<phase, state, fed, last, sinks>>

Attempts == 1..NumAttempts

\* One state field, kept in the Pattern, used by every Matcher.
own_shared(i) == 1

\* The Matcher whose state field attempt i reads and writes: the one
\* matcher() built for it.
own(i) == i

StateOf(i) == pool[own(i)].state

ConcTexts == SeqsUpTo(MaxConc) \cup ScenarioTexts(automaton)

\* The Patterns the attempts share: those of the crate's tests.
ConcAutomata == HelloDfas \cup RepDfas

InitConc ==
    /\ automaton \in ConcAutomata
    /\ phase = "none"
    /\ state = automaton.start
    /\ fed = <<>>
    /\ last = Done("Pattern.new", <<>>, automaton.start, "ok", FALSE, 0, 0,
                   FALSE)
    /\ sinks = {}
    /\ earlier = {}
    /\ rd = NoRead
    /\ pool = [i \in Attempts |->
                  [status |-> "idle", input |-> <<>>, pos |-> 0,
                   state |-> automaton.start, ret |-> FALSE]]

\* pattern.matches(s) is entered: self.matcher() builds the Matcher.
AttemptBegin(i, s) ==
    /\ pool[i].status = "idle"
    /\ pool' = [[pool EXCEPT ![i] = [@ EXCEPT !.status = "running",
                                              !.input = s, !.pos = 0,
                                              !.ret = FALSE]]
                    EXCEPT ![own(i)].state = matcher(automaton)]
    /\ UNCHANGED <<automaton, main, earlier, rd>>

\* One iteration of the loop of matches: advance, then the dead-state test.
AttemptStep(i) ==
    /\ pool[i].status = "running"
    /\ pool[i].pos < Len(pool[i].input)
    /\ LET q2 == advance(automaton, StateOf(i), pool[i].input[pool[i].pos + 1])
           dead == is_dead_state(automaton, q2)
       IN  pool' = [[pool EXCEPT ![i] = [@ EXCEPT
                                  !.pos = @ + 1,
                                  !.status = IF dead THEN "done" ELSE @,
                                  !.ret = FALSE]]
                       EXCEPT ![own(i)].state = q2]
    /\ UNCHANGED <<automaton, main, earlier, rd>>

\* The loop of matches is over: self.is_matched() is returned.
AttemptEnd(i) ==
    /\ pool[i].status = "running"
    /\ pool[i].pos = Len(pool[i].input)
    /\ pool' = [pool EXCEPT ![i] = [@ EXCEPT
                    !.status = "done",
                    !.ret = is_matched(automaton, StateOf(i))]]
    /\ UNCHANGED <<automaton, main, earlier, rd>>

NextConc ==
    \/ \E i \in Attempts : \E s \in ConcTexts : AttemptBegin(i, s)
    \/ \E i \in Attempts : AttemptStep(i)
    \/ \E i \in Attempts : AttemptEnd(i)

SpecConc == InitConc /\ [][NextConc]_vars

----------------------------------------------------------------------------
(* Calls on one Pattern, one after another, with the way the earlier ones   *)
(* ended remembered.                                                        *)

MatchCallOps ==
    {"matches", "debug_matches", "display_matches", "read_matches",
     "Pattern.matches", "Pattern.debug_matches", "Pattern.display_matches",
     "Pattern.read_matches"}

\* How the call l, which left its Matcher in state q, ended.
Ended(l, q) ==
    IF l.op \in MatchCallOps /\ l.kind # "pending"
    THEN (IF is_dead_state(automaton, q) THEN {"dead"} ELSE {})
         \cup (IF l.kind \in {"error", "panic"} THEN {l.kind} ELSE {})
    ELSE {}

\* The call before is added to the history.
Note ==
    /\ earlier' = earlier \cup Ended(last, state)
    /\ UNCHANGED <<pool, rd>>

\* The texts of these calls, for a Matcher that was already given f.
CallTexts(f) ==
    {<<>>} \cup SeqsUpTo(MaxCall - Len(f))
           \cup (IF f = <<>> THEN ScenarioTexts(automaton) ELSE {})

CallSources(f) == [bytes : CallTexts(f), fails : BOOLEAN]

NextCalls ==
    \/ NewMatcher /\ Note
    \/ \E s \in CallTexts(fed) : MatcherMatches(s) /\ Note
    \/ \E s \in CallTexts(<<>>) : PatternMatches(s) /\ Note
    \/ \E src \in CallSources(<<>>) : PatternReadMatches(src) /\ Note
    \/ \E op \in {"Pattern.debug_matches", "Pattern.display_matches"} :
          PatternFmtBegin(op) /\ Note
    \/ \E s \in CallTexts(fed) : RenderChunk(s) /\ Note
    \/ \E err \in BOOLEAN : RenderEnd(err) /\ Note

SpecCalls == Init /\ [][NextCalls]_vars

----------------------------------------------------------------------------
(* read_matches, one iteration of its loop per step, on byte sources that   *)
(* may never end.                                                           *)
(*                                                                          *)
(* A source yields the bytes of prefix and then ends ("eof"), fails ("err") *)
(* or yields the bytes of cycle over and over ("loop").  rd is the call:    *)
(* its source, the position of the next item in it, the Matcher's state,    *)
(* whether it has returned and what, the parity of the number of bytes      *)
(* pulled, and whether a byte it pulled has left the state dead.            *)

ReadSources ==
    [prefix : SeqsUpTo(MaxRead), cycle : {<<>>}, tail : {"eof", "err"}]
    \cup [prefix : SeqsUpTo(MaxRead),
          cycle : SeqsUpTo(MaxCycle) \ {<<>>}, tail : {"loop"}]

\* The next item of io.bytes() at position at of the source.
NextItem(src, at) ==
    IF at < Len(src.prefix)
    THEN [kind |-> "byte", byte |-> src.prefix[at + 1]]
    ELSE IF src.tail = "loop"
    THEN [kind |-> "byte", byte |-> src.cycle[at - Len(src.prefix) + 1]]
    ELSE [kind |-> src.tail, byte |-> 0]

\* The position after the item at position at.
NextAt(src, at) ==
    IF src.tail = "loop" /\ at + 1 = Len(src.prefix) + Len(src.cycle)
    THEN Len(src.prefix)
    ELSE at + 1

\* One iteration of the loop of read_matches without the dead-state test.
read_iter_no_test(A, q, item) ==
    CASE item.kind = "eof" ->
             [state |-> q, done |-> TRUE, kind |-> "bool",
              ret |-> is_matched(A, q)]
      [] item.kind = "err" ->
             [state |-> q, done |-> TRUE, kind |-> "error", ret |-> FALSE]
      [] OTHER ->
             [state |-> advance(A, q, item.byte), done |-> FALSE,
              kind |-> "none", ret |-> FALSE]

\* One iteration of the loop of read_matches on the next item of
\* io.bytes(): the end of the source (the loop is left and Ok(is_matched())
\* returned), an error (r? returns it), or a byte (advance, then Ok(false)
\* if the state is dead).
read_iter(A, q, item) ==
    CASE item.kind = "eof" ->
             [state |-> q, done |-> TRUE, kind |-> "bool",
              ret |-> is_matched(A, q)]
      [] item.kind = "err" ->
             [state |-> q, done |-> TRUE, kind |-> "error", ret |-> FALSE]
      [] OTHER ->
             LET q2 == advance(A, q, item.byte)
             IN  IF is_dead_state(A, q2)
                 THEN [state |-> q2, done |-> TRUE, kind |-> "bool",
                       ret |-> FALSE]
                 ELSE [state |-> q2, done |-> FALSE, kind |-> "none",
                       ret |-> FALSE]

InitRead ==
    /\ automaton \in Automata
    /\ phase = "none"
    /\ state = automaton.start
    /\ fed = <<>>
    /\ last = Done("Pattern.new", <<>>, automaton.start, "ok", FALSE, 0, 0,
                   FALSE)
    /\ sinks = {}
    /\ earlier = {}
    /\ pool = <<>>
    /\ rd = NoRead

\* pattern.read_matches(io) is entered: self.matcher() builds the Matcher.
ReadBegin(src) ==
    /\ ~rd.on
    /\ rd' = [on |-> TRUE, src |-> src, at |-> 0,
              state |-> matcher(automaton), done |-> FALSE,
              kind |-> "none", ret |-> FALSE, tick |-> FALSE,
              deadseen |-> FALSE]
    /\ UNCHANGED <<automaton, main, earlier, pool>>

\* One iteration of the loop.
ReadPull ==
    /\ rd.on
    /\ ~rd.done
    /\ LET item == NextItem(rd.src, rd.at)
           r == read_iter(automaton, rd.state, item)
           byte == item.kind = "byte"
       IN  rd' = [rd EXCEPT
                     !.at = IF byte THEN NextAt(rd.src, rd.at) ELSE @,
                     !.state = r.state,
                     !.done = r.done,
                     !.kind = r.kind,
                     !.ret = r.ret,
                     !.tick = IF byte THEN ~@ ELSE @,
                     !.deadseen = @ \/ (byte /\ is_dead_state(automaton,
                                                             r.state))]
    /\ UNCHANGED <<automaton, main, earlier, pool>>

NextRead ==
    \/ \E src \in ReadSources : ReadBegin(src)
    \/ ReadPull

\* The thread that called read_matches keeps running, and every read of
\* the blocking source returns.
SpecRead == InitRead /\ [][NextRead]_vars /\ WF_vars(ReadPull)

----------------------------------------------------------------------------
(* Reference definitions for the properties.                                *)

\* The state reached from q by feeding every byte of s through the
\* transition function, with no early exit.
RECURSIVE RunAll(_, _, _)
RunAll(A, q, s) ==
    IF s = <<>> THEN q
    ELSE RunAll(A, next_state_unchecked(A, q, Head(s)), Tail(s))

automaton_accepts(A, s) == is_match_state(A, RunAll(A, start_state(A), s))

\* The positions of s after which the full run from q is in the dead state.
DeadPositions(A, q, s) ==
    {i \in 1..Len(s) : is_dead_state(A, RunAll(A, q, SubSeq(s, 1, i)))}

\* The states the automaton can reach from its start state.
RECURSIVE ReachFrom(_, _)
ReachFrom(A, S) ==
    LET N == S \cup {A.trans[q][c] : q \in S, c \in 1..(Len(A.alpha) + 1)}
    IN  IF N = S THEN S ELSE ReachFrom(A, N)

Reachable(A) == ReachFrom(A, {start_state(A)})

MatchesOps == {"matches", "Pattern.matches"}
FmtOps == {"debug_matches", "display_matches", "Pattern.debug_matches",
           "Pattern.display_matches"}
ReadOps == {"read_matches", "Pattern.read_matches"}
MatchOps == MatchesOps \cup FmtOps \cup ReadOps
Returned == last.kind # "pending"

----------------------------------------------------------------------------
(* Properties.                                                              *)

\* C1: matches(S), on a Matcher or through Pattern.matches, returns
\* is_match_state of the state reached by feeding every byte submitted,
\* from the start state, through the transition function with no early
\* exit; so does the full run of S alone from the state matches started in.
C1_MatchesIsFullRun ==
    last.op \in MatchesOps =>
        /\ last.kind = "bool"
        /\ last.b = automaton_accepts(automaton, fed)
        /\ last.b = is_match_state(automaton,
                                   RunAll(automaton, last.pre, last.arg))

\* matches returned early, before the end of its input.
C1_Witness ==
    /\ last.op = "Pattern.matches"
    /\ last.adv < Len(last.arg)
    /\ last.adv >= 1
    /\ ~last.b

\* C2: when the rendering ends without a renderer error, debug_matches and
\* display_matches return what matches returns on the concatenation of the
\* chunks, however the renderer split them.
C2_FmtIsMatchesOfChunks ==
    (last.op \in FmtOps /\ Returned /\ ~last.fail) =>
        /\ last.kind = "bool"
        /\ last.b = matches(automaton, last.pre, last.arg).ret
        /\ last.b = automaton_accepts(automaton, fed)

\* A rendering whose bytes were not all fed (a chunk was cut short) and a
\* state that was dead when the rendering ended.
C2_Witness ==
    /\ last.op \in FmtOps
    /\ last.kind = "bool"
    /\ 1 <= last.adv
    /\ last.adv < Len(last.arg)
    /\ is_dead_state(automaton, state)

\* C3: on a source that yields B and then signals end of data, read_matches
\* returns Ok(b), b what matches returns on B.
C3_ReadIsMatches ==
    (last.op \in ReadOps /\ ~last.fail) =>
        /\ last.kind = "bool"
        /\ last.b = matches(automaton, last.pre, last.arg).ret
        /\ last.b = automaton_accepts(automaton, fed)

\* read_matches stopped reading before the end of the source.
C3_Witness ==
    /\ last.op = "Pattern.read_matches"
    /\ ~last.fail
    /\ last.kind = "bool"
    /\ 1 <= last.adv
    /\ last.adv < Len(last.arg)

\* C4 as stated: on a source that yields k bytes and then fails,
\* read_matches returns the read error, whatever the k bytes are.
C4_AlwaysError ==
    (last.op \in ReadOps /\ last.fail) => last.kind = "error"

\* C4 amended: on a source that yields k bytes and then fails, read_matches
\* returns the read error if none of the k bytes leaves the walk in the dead
\* state, and Ok(false) if one does (the failing read is then never made).
C4_ErrorUnlessDead ==
    (last.op \in ReadOps /\ last.fail) =>
        IF DeadPositions(automaton, last.pre, last.arg) = {}
        THEN last.kind = "error" /\ last.adv = Len(last.arg)
        ELSE last.kind = "bool" /\ ~last.b /\ last.adv <= Len(last.arg)

\* A source that failed after some bytes, and the error came back.
C4_Witness ==
    /\ last.op \in ReadOps
    /\ last.fail
    /\ Len(last.arg) >= 1
    /\ last.kind = "error"

\* C5: when the walk of a match operation has gone into the dead state, the
\* operation returns false (Ok(false) for read_matches): not true, not an
\* error; it panics only if the renderer itself signalled an error.
C5_DeadIsFalse ==
    (last.op \in MatchOps /\ Returned /\ last.adv >= 1
         /\ is_dead_state(automaton, state)) =>
        \/ last.kind = "bool" /\ ~last.b
        \/ last.op \in FmtOps /\ last.kind = "panic" /\ last.fail

\* read_matches went dead on a source that would have failed later.
C5_Witness ==
    /\ last.op \in ReadOps
    /\ last.fail
    /\ last.adv >= 1
    /\ is_dead_state(automaton, state)
    /\ ~is_dead_state(automaton, last.pre)
    /\ last.kind = "bool"
    /\ ~last.b

\* C6: once a Matcher's state is dead it stays dead through every further
\* operation on that Matcher (write_str, write, flush, is_matched, the
\* renderer's chunks, a consuming match operation), and is_matched() is
\* false from then on.
C6_DeadStaysDead ==
    [][ ( /\ is_dead_state(automaton, state)
          /\ \/ phase = "rendering"
             \/ phase = "live" /\ last'.op \in
                    {"is_matched", "write_str", "write", "flush", "matches",
                     "read_matches", "debug_matches", "display_matches"} )
        => ( /\ is_dead_state(automaton, state')
             /\ (last'.op = "is_matched" => ~last'.b) ) ]_vars

\* A write of at least one byte to a Matcher that was already dead.
C6_Witness ==
    /\ phase = "live"
    /\ last.op = "write"
    /\ is_dead_state(automaton, last.pre)
    /\ last.adv >= 1
    /\ is_dead_state(automaton, state)

\* C7: the Matcher's state is always a state of its own automaton that the
\* automaton reaches from its start state, so advance never hands the
\* unchecked transition an identifier the automaton does not have.
C7_StateValid ==
    /\ state \in automaton.states
    /\ state \in Reachable(automaton)
    /\ last.pre \in Reachable(automaton)

\* A Matcher that has left the start state, in an automaton that has a
\* state the walk can never be in.
C7_Witness ==
    /\ phase = "live"
    /\ last.adv >= 1
    /\ state # start_state(automaton)
    /\ Reachable(automaton) # automaton.states

\* C8: is_matched() is true iff the state is a match state when it is
\* called, that is iff the automaton accepts exactly the bytes consumed so
\* far; a match is not sticky: "hello world!" is rejected by "hello world",
\* "abb" and "aaaaabb" by "a+b", while "hello world", "ab" and "aaaab" are
\* accepted and "b" is rejected.
C8_NotSticky ==
    /\ last.op = "is_matched" =>
           /\ last.b = is_match_state(automaton, state)
           /\ last.b = automaton_accepts(automaton, fed)
    /\ (last.op \in MatchOps /\ last.kind = "bool") =>
           /\ (automaton \in HelloDfas /\ fed = HelloWorld) => last.b
           /\ (automaton \in HelloDfas /\ fed = HelloWorldBang) => ~last.b
           /\ (automaton \in RepDfas /\ fed \in {Txt_ab, Txt_aaaab}) => last.b
           /\ (automaton \in RepDfas /\ fed \in {Txt_b, Txt_abb, Txt_aaaaabb})
                  => ~last.b

\* "aaaaabb" rendered into a Matcher of "a+b": rejected, though its prefix
\* "aaaaab" is accepted.
C8_Witness ==
    /\ automaton \in RepDfas
    /\ fed = Txt_aaaaabb
    /\ last.op = "Pattern.debug_matches"
    /\ last.kind = "bool"
    /\ ~last.b
    /\ automaton_accepts(automaton, SubSeq(fed, 1, Len(fed) - 1))

\* C9: write_str returns Ok(()) for every chunk and every state, so
\* debug_matches / display_matches panic only when the renderer itself
\* signalled an error.
C9_WriteStrNeverFails ==
    /\ last.op = "write_str" => last.kind = "ok"
    /\ (last.op \in FmtOps /\ last.kind = "panic") => last.fail

\* A non-empty chunk written to a Matcher that was already dead.
C9_Witness ==
    /\ last.op = "write_str"
    /\ is_dead_state(automaton, last.pre)
    /\ Len(last.arg) >= 1
    /\ last.kind = "ok"

\* C10: write returns Ok(n), n the number of bytes fed through advance: the
\* chunk's length if the state is never dead after a byte of the chunk,
\* else the position of the first byte after which it is dead; the bytes
\* after position n do not affect the state.
C10_WriteCount ==
    last.op = "write" =>
        LET D == DeadPositions(automaton, last.pre, last.arg)
        IN  /\ last.kind = "count"
            /\ last.n = last.adv
            /\ last.n = IF D = {} THEN Len(last.arg)
                        ELSE CHOOSE i \in D : \A j \in D : i <= j
            /\ state = RunAll(automaton, last.pre, SubSeq(last.arg, 1, last.n))

\* A short write: the state went dead before the end of the chunk.
C10_Witness ==
    /\ last.op = "write"
    /\ 1 <= last.n
    /\ last.n < Len(last.arg)
    /\ ~is_dead_state(automaton, last.pre)

\* The operations that feed a whole text to the Matcher in one call.
FeedOps == {"write_str", "write"} \cup MatchesOps \cup ReadOps

\* The least element of a non-empty set of positions.
First(D) == CHOOSE i \in D : \A j \in D : i <= j

\* C11 (as stated): once a Matcher's state is dead, no operation on it
\* takes a further transition or consumes a further byte: a call that
\* finds the Matcher dead makes no advance call.
C11_NoWorkOnceDead ==
    (last.op \in FeedOps /\ is_dead_state(automaton, last.pre)) =>
        last.adv = 0

\* C11 (amended): within one call no transition follows the first byte
\* after which the state is dead: the call makes exactly as many advance
\* calls as that byte's position, or as the text has bytes if there is no
\* such byte.  A call that finds the Matcher already dead therefore still
\* takes exactly one transition when its text is not empty, and none when
\* it is empty.
C11_StopsAtFirstDead ==
    last.op \in FeedOps =>
        LET D == DeadPositions(automaton, last.pre, last.arg)
        IN  /\ last.adv = IF D = {} THEN Len(last.arg) ELSE First(D)
            /\ is_dead_state(automaton, last.pre) =>
                   last.adv = IF last.arg = <<>> THEN 0 ELSE 1

\* matches called on a Matcher that an earlier write had left dead: it
\* takes one transition more and returns false.
C11_Witness ==
    /\ last.op = "matches"
    /\ is_dead_state(automaton, last.pre)
    /\ Len(last.arg) >= 1
    /\ last.adv = 1
    /\ ~last.b

\* C12: when the per-byte steps of match attempts on Matchers of one
\* Pattern interleave in any order, every attempt returns what matches
\* returns for its text when run alone, a step of one attempt leaves the
\* state of every other attempt's Matcher as it was, and the automaton is
\* never modified.
C12_AttemptsIndependent ==
    [][ /\ automaton' = automaton
        /\ \A i \in Attempts :
               /\ pool'[i].status = "done" =>
                      pool'[i].ret =
                          Pattern_matches(automaton, pool'[i].input).ret
               /\ pool'[i] = pool[i] => StateOf(i)' = StateOf(i) ]_vars

\* Two attempts both half way through different two-byte texts, their
\* Matchers in different states.
C12_Witness ==
    /\ pool # <<>>
    /\ \A i \in {1, 2} :
           /\ pool[i].status = "running"
           /\ Len(pool[i].input) = 2
           /\ pool[i].pos = 1
    /\ pool[1].input # pool[2].input
    /\ pool[1].state # pool[2].state
    /\ ~is_dead_state(automaton, pool[1].state)

\* What a match call returns on a Pattern just built: an error when the
\* source fails before the walk is dead, a panic when the renderer fails,
\* otherwise whether the automaton accepts the whole text.
FreshResult(A, op, text, fail) ==
    IF op \in ReadOps /\ fail /\ DeadPositions(A, start_state(A), text) = {}
    THEN [kind |-> "error", b |-> FALSE]
    ELSE IF op \in FmtOps /\ fail
    THEN [kind |-> "panic", b |-> FALSE]
    ELSE [kind |-> "bool", b |-> automaton_accepts(A, text)]

PatternOps ==
    {"Pattern.matches", "Pattern.debug_matches", "Pattern.display_matches",
     "Pattern.read_matches"}

\* C13: every Pattern.matches / debug_matches / display_matches /
\* read_matches call runs on a new Matcher in the start state that sees
\* this call's bytes only, so, however the earlier calls on the Pattern
\* ended, it returns what a Pattern just built returns for that input; so
\* does matches on any Matcher obtained from matcher().
C13_CallsIndependent ==
    /\ last.op \in PatternOps =>
           /\ last.pre = start_state(automaton)
           /\ fed = last.arg
    /\ (last.op \in PatternOps \cup {"matches"} /\ Returned) =>
           LET r == FreshResult(automaton, last.op, fed, last.fail)
           IN  /\ last.kind = r.kind
               /\ last.b = r.b

\* Pattern.matches returns true for a text after earlier calls on the
\* Pattern ended dead, in an error and in a panic.
C13_Witness ==
    /\ earlier = {"dead", "error", "panic"}
    /\ last.op = "Pattern.matches"
    /\ Len(last.arg) >= 1
    /\ last.b

\* cycle repeated n times.
RECURSIVE Repeat(_, _)
Repeat(cycle, n) == IF n = 0 THEN <<>> ELSE cycle \o Repeat(cycle, n - 1)

\* The bytes of a source up to the point where the states of the full run
\* can only repeat.
Unrolled(A, src) ==
    src.prefix \o Repeat(src.cycle, Cardinality(A.states))

\* The byte stream of the source leaves the walk from the start state dead.
DrivesDead(A, src) == DeadPositions(A, start_state(A), Unrolled(A, src)) # {}

\* C14: read_matches pulls one byte per iteration and pulls no byte after
\* the first one that leaves the state dead; it returns on every source
\* that ends, fails, or whose bytes drive the walk dead, unbounded or not;
\* on an unbounded source that never fails and never drives the walk dead
\* it never returns.
C14_ReadTermination ==
    /\ [][ (rd.on /\ rd'.tick # rd.tick) =>
               /\ ~rd.deadseen
               /\ ~rd.done
               /\ rd'.state = advance(automaton, rd.state,
                                      NextItem(rd.src, rd.at).byte) ]_vars
    /\ []( (rd.on /\ (rd.src.tail # "loop"
                          \/ DrivesDead(automaton, rd.src))) => <>rd.done )
    /\ []( (rd.on /\ rd.src.tail = "loop"
                  /\ ~DrivesDead(automaton, rd.src)) => ~rd.done )

\* read_matches has returned Ok(false) on a source that yields one byte
\* for ever, after pulling it an even number of times, so at least twice.
C14_Witness ==
    /\ rd.on
    /\ rd.src.tail = "loop"
    /\ rd.src.prefix = <<>>
    /\ Len(rd.src.cycle) = 1
    /\ rd.done
    /\ rd.kind = "bool"
    /\ ~rd.ret
    /\ rd.deadseen
    /\ ~rd.tick

\* C15: after any interleaved sequence of write_str and write calls on one
\* Matcher, is_matched() equals what matches returns, on a Matcher in the
\* start state, for the concatenation of all the chunks submitted, in call
\* order, the bytes a short write or a truncated write_str dropped
\* included.
C15_SinksAreOneWalk ==
    phase = "live" =>
        LET whole == matches(automaton, matcher(automaton), fed).ret
        IN  /\ is_matched(automaton, state) = whole
            /\ last.op = "is_matched" => last.b = whole

\* is_matched() is true after both sinks were written to.
C15_Witness ==
    /\ phase = "live"
    /\ sinks = {"write_str", "write"}
    /\ Len(fed) = 2
    /\ last.op = "is_matched"
    /\ last.b

\* The write-all loop of a caller (std's io::Write::write_all): write is
\* called on what is left of buf until nothing is left; Ok(0) on a
\* non-empty buffer, or an error, ends it in failure.
RECURSIVE write_all_loop(_, _, _, _)
write_all_loop(A, q, buf, calls) ==
    IF buf = <<>>
    THEN [ok |-> TRUE, calls |-> calls, state |-> q]
    ELSE LET r == write(A, q, buf)
         IN  IF ~r.ok \/ r.n = 0
             THEN [ok |-> FALSE, calls |-> calls + 1, state |-> r.state]
             ELSE write_all_loop(A, r.state, SubSeq(buf, r.n + 1, Len(buf)),
                                 calls + 1)

write_all(A, q, buf) == write_all_loop(A, q, buf, 0)

\* C16: for a non-empty chunk write returns Ok(n) with 1 <= n <= the
\* chunk's length, and n = 1 when the Matcher was already dead; for an
\* empty chunk it returns Ok(0) and leaves the state as it was; so a
\* write-all loop on any buffer, from any state a Matcher can be in,
\* succeeds after at most as many calls of write as the buffer has bytes.
C16_WriteProgress ==
    /\ last.op = "write" =>
           /\ last.kind = "count"
           /\ last.arg # <<>> =>
                  /\ 1 <= last.n /\ last.n <= Len(last.arg)
                  /\ is_dead_state(automaton, last.pre) => last.n = 1
           /\ last.arg = <<>> => (last.n = 0 /\ state = last.pre)
    /\ phase = "live" =>
           \A buf \in SeqsUpTo(MaxFed) :
               LET w == write_all(automaton, state, buf)
               IN  w.ok /\ w.calls <= Len(buf)

\* write has just returned Ok(1) for a chunk given to a dead Matcher, and
\* a write-all loop on two bytes would now take two calls.
C16_Witness ==
    /\ phase = "live"
    /\ last.op = "write"
    /\ is_dead_state(automaton, last.pre)
    /\ last.n = 1
    /\ \E buf \in SeqsUpTo(MaxFed) :
           Len(buf) = 2 /\ write_all(automaton, state, buf).calls = 2

\* C17: matcher() gives a Matcher in the automaton's start state, and a
\* match operation on a Matcher that no byte was ever fed to (an empty
\* string, a rendering that writes no text, a source that ends at once)
\* returns is_match_state of the start state, having taken no transition
\* and left the state where it was.
C17_EmptyInput ==
    /\ last.op = "matcher" =>
           /\ state = start_state(automaton)
           /\ fed = <<>>
    /\ (last.op \in MatchOps /\ Returned /\ fed = <<>> /\ ~last.fail) =>
           /\ last.kind = "bool"
           /\ last.b = is_match_state(automaton, start_state(automaton))
           /\ last.adv = 0
           /\ state = start_state(automaton)

\* display_matches of a value that renders as no text returned true: the
\* start state is a match state.
C17_Witness ==
    /\ last.op = "Pattern.display_matches"
    /\ last.kind = "bool"
    /\ fed = <<>>
    /\ last.adv = 0
    /\ last.b

\* C18: is_matched() and flush() take no transition and leave the state
\* as it was on entry, and flush() returns Ok(()); after them is_matched()
\* is still what the bytes fed so far make it; and the state a feeding
\* call leaves is the state it found advanced by exactly one transition
\* for each byte it consumed.
C18_Frame ==
    /\ last.op \in {"is_matched", "flush"} =>
           /\ state = last.pre
           /\ last.adv = 0
           /\ last.op = "flush" => last.kind = "ok"
           /\ is_matched(automaton, state) = automaton_accepts(automaton, fed)
    /\ last.op \in FeedOps =>
           state = RunAll(automaton, last.pre,
                          SubSeq(last.arg, 1, last.adv))

\* flush() on a Matcher that bytes had taken to a match state.
C18_Witness ==
    /\ phase = "live"
    /\ last.op = "flush"
    /\ fed # <<>>
    /\ state # start_state(automaton)
    /\ is_matched(automaton, state)

====
